---- MODULE Spec2Model ----
(***************************************************************************)
(* The JSON document store of devkiraa/json-api.                           *)
(*                                                                         *)
(* Two backends are modelled, selected by the variable backend:            *)
(*   "mongo" - the account-aware backend (src/unnamed/part_000, lines      *)
(*             508-1116): documents live in a MongoDB collection, every    *)
(*             driver call (FindOne, InsertOne, UpdateOne, DeleteOne,      *)
(*             Find) is one atomic step on the collection;                 *)
(*   "file"  - the file backend (src/unnamed/part_000, lines 1-506): one   *)
(*             file per document under a store-wide sync.RWMutex.          *)
(* src/backend/main.go is the mongo backend without accounts: it is the    *)
(* "mongo" backend restricted to the administrative ("global") scope.      *)
(*                                                                         *)
(* Every request is served by one of NumProcs workers.  A handler whose    *)
(* code touches the shared store once is one action; a handler that        *)
(* touches it several times (updateDocument, Save, List) is one action     *)
(* per access.  The variable ev holds the response that has just been      *)
(* produced together with the request that caused it; the action sendJSON  *)
(* hands it to the client and clears it.  The request body is drawn at the *)
(* step that first uses its members.                                       *)
(***************************************************************************)
EXTENDS Integers, Sequences, FiniteSets, TLC

\* ---------------------------------------------------------------- bounds
NumProcs == 2
MaxDocs == 2
MaxTime == 1
MaxUsers == 2

Procs == 1..NumProcs
Ids == 1..MaxDocs
Times == 0..MaxTime

\* ---------------------------------------------------------------- inputs
\* Credential strings a request may carry ("" is a missing credential).
Creds == {"", "admin", "kA", "kB", "bogus"}
\* The "name" member of a request body ("" is an absent or empty name).
NameIn == {"", "n1", "n2"}
\* The "data" member of a request body: absent, JSON null, the empty object
\* or a non-empty object.
DataIn == {"absent", "null", "{}", "d1"}
\* A request body: malformed JSON, or an object with name and data.
Bodies == {[bad |-> TRUE, name |-> "", data |-> "absent"]} \cup [bad : {FALSE}, name : NameIn, data : DataIn]

\* The "email" and "password" members of the body of a register or login
\* request ("" is an absent or empty member; "short" has fewer than 6 bytes).
EmailIn == {"", "a@x.com", "A@X.com", "b@x.com"}
PasswordIn == {"", "short", "secretA", "secretB"}

\* The workloads explored: all workers on all but one of the identifiers, or
\* all but one of the workers on all identifiers, with every request body;
\* or all workers on all identifiers with one request body.
Workloads == {[workers |-> Procs, quota |-> MaxDocs - 1, bodies |-> Bodies], [workers |-> 1..(NumProcs - 1), quota |-> MaxDocs, bodies |-> Bodies], [workers |-> Procs, quota |-> MaxDocs, bodies |-> {[bad |-> FALSE, name |-> "n1", data |-> "d1"]}]}

VARIABLES backend, workers, quota, bodies, cfgKey, users, docs, files, mu, nextId, removed, pc, loc, ev

vars == <<backend, workers, quota, bodies, cfgKey, users, docs, files, mu, nextId, removed, pc, loc, ev>>

\* ---------------------------------------------------------------- values
\* context value "user_id" of the legacy global API key
Global == "global"

\* A worker's locals while no request is in progress.
NoLoc == [op |-> "", scope |-> "", id |-> 0, doc |-> {}, pre |-> {}, dir |-> <<>>, acc |-> {}, torn |-> FALSE, email |-> "", password |-> ""]

NoBody == [bad |-> FALSE, name |-> "", data |-> "absent"]

\* A response together with its request: op, the resolved scope, the id of
\* the path, the body, the HTTP status, the documents (out) or the raw
\* content of the response, the stored document before the step (pre) and
\* the document the handler had read earlier (read); torn: the handler found
\* the document's file truncated; fault: a call of the database driver made
\* for the request returned an error because the database was unreachable.
EventT(op, scope, id, body, status, out, content, pre, read, torn) == [op |-> op, scope |-> scope, id |-> id, bad |-> body.bad, name |-> body.name, data |-> body.data, status |-> status, out |-> out, content |-> content, pre |-> pre, read |-> read, torn |-> torn, fault |-> FALSE]

Event(op, scope, id, body, status, out, content, pre, read) == EventT(op, scope, id, body, status, out, content, pre, read, FALSE)

\* No response pending.
NoEv == Event("none", "", 0, NoBody, 0, {}, {}, {}, {})

\* strings.ToLower
ToLower(s) == IF s = "A@X.com" THEN "a@x.com" ELSE s

\* len(input.Password)
Len6(pw) == pw \notin {"", "short"}

\* bcrypt.GenerateFromPassword and bcrypt.CompareHashAndPassword
GenerateFromPassword(pw) == <<"bcrypt", pw>>

CompareHashAndPassword(hash, pw) == hash = <<"bcrypt", pw>>

\* uuid.New() of registerHandler: the identifier and the API key of the n-th
\* account inserted (values no other account has).
UserID(n) == IF n = 1 THEN "uA" ELSE IF n = 2 THEN "uB" ELSE "uC"

APIKey(n) == IF n = 1 THEN "kA" ELSE IF n = 2 THEN "kB" ELSE "kC"

\* The registered accounts the users collection holds when the server starts:
\* a@x.com and b@x.com have registered.
InitUsers == {[id |-> UserID(1), email |-> "a@x.com", password |-> GenerateFromPassword("secretA"), api_key |-> APIKey(1)], [id |-> UserID(2), email |-> "b@x.com", password |-> GenerateFromPassword("secretB"), api_key |-> APIKey(2)]}

\* The account as the auth handlers return it: id, email and api_key.
UserData(u) == [id |-> u.id, email |-> u.email, api_key |-> u.api_key]

\* The response of an auth handler: the email and the password of the body
\* (kept in the members name and data of the event), the status, the
\* account returned and the error text.
AuthEvent(op, email, password, status, out, error) == [op |-> op, scope |-> "", id |-> 0, bad |-> FALSE, name |-> email, data |-> password, status |-> status, out |-> out, content |-> error, pre |-> {}, read |-> {}, torn |-> FALSE, fault |-> FALSE]

\* Some worker is free to take a request, and no response is being written.
Idle == ev = NoEv /\ \E p \in workers : pc[p] = "idle"

IdleAt(p) == ev = NoEv /\ p \in workers /\ pc[p] = "idle"

\* time.Now(): the clock never runs backwards, so a reading is not earlier
\* than any time stamp the caller has already seen; it is otherwise free.
Now(seen) == seen..MaxTime

\* A generator that returns its previous identifier again.
RepeatedUUID == IF nextId > 1 THEN nextId - 1 ELSE nextId

\* uuid.New(): an identifier no earlier call has returned.
NewUUID == nextId

\* The response is written to the client.
sendJSON ==
    /\ ev # NoEv
    /\ ev' = NoEv
    /\ UNCHANGED <<backend, workers, quota, bodies, cfgKey, users, docs, files, mu, nextId, removed, pc, loc>>

Respond(e) ==
    /\ ev' = e
    /\ UNCHANGED <<backend, workers, quota, bodies, cfgKey, users, docs, files, mu, nextId, removed, pc, loc>>

\* ================================================== the account-aware backend
Mongo == backend = "mongo"

\* A middleware that compares with the configured key first, as the one of
\* the file store does.
authMiddlewareKeyFirst(cred) ==
    IF cred = cfgKey THEN [ok |-> TRUE, scope |-> Global]
    ELSE IF \E u \in users : u.api_key = cred
         THEN [ok |-> TRUE, scope |-> (CHOOSE u \in users : u.api_key = cred).id]
         ELSE [ok |-> FALSE, scope |-> ""]

\* authMiddleware: the user_id a credential resolves to, or a 401.
authMiddleware(cred) ==
    IF cred = "" THEN [ok |-> FALSE, scope |-> ""]
    ELSE IF cfgKey # "" /\ cred = cfgKey THEN [ok |-> TRUE, scope |-> Global]
    ELSE IF \E u \in users : u.api_key = cred
         THEN [ok |-> TRUE, scope |-> (CHOOSE u \in users : u.api_key = cred).id]
         ELSE [ok |-> FALSE, scope |-> ""]

\* The stored document with this _id, if any.
DocAt(id) == IF id \in DOMAIN docs THEN {docs[id]} ELSE {}

\* A filter on _id alone, whoever the caller is.
FilterIdOnly(scope, id) == id \in DOMAIN docs

\* A filter that always adds user_id, also for "global".
FilterOwnerOnly(scope, id) == id \in DOMAIN docs /\ docs[id].user_id = scope

\* The bson filter {"_id": id}, with {"user_id": userID} added unless userID
\* is "global": whether a stored document matches it.
Filter(scope, id) == id \in DOMAIN docs /\ (scope # Global => docs[id].user_id = scope)

\* The empty filter, whoever the caller is.
ListFilterAll(scope) == {docs[i] : i \in DOMAIN docs}

\* The bson filter of listDocuments: {} for "global", {"user_id": userID}
\* otherwise; the documents Find returns.
ListFilter(scope) == {docs[i] : i \in {j \in DOMAIN docs : scope # Global => docs[j].user_id = scope}}

\* createDocument: a nil input.Data is replaced by an empty map.
CreateData(data) == IF data \in {"absent", "null"} THEN "{}" ELSE data

\* A "$set" document that carries the name and leaves out the data.
SetNameOnly(doc, body, t) == [doc EXCEPT !.updated_at = t, !.name = IF body.name # "" THEN body.name ELSE @]

\* updateDocument: the "$set" document {updated_at, name?, data?} applied to
\* a stored document (input.Data is nil for an absent or null "data").
SetDoc(doc, body, t) == [doc EXCEPT !.updated_at = t, !.name = IF body.name # "" THEN body.name ELSE @, !.data = IF body.data \notin {"absent", "null"} THEN body.data ELSE @]

\* updateDocument: existingDoc as edited for the response.
RespDoc(doc, body, t) == [doc EXCEPT !.updated_at = t, !.name = IF body.name # "" THEN body.name ELSE @, !.data = IF body.data \notin {"absent", "null"} THEN body.data ELSE @]

\* The responses of the handlers that read the collection once.
getResponse(scope, id) == IF Filter(scope, id) THEN Event("get", scope, id, NoBody, 200, {docs[id]}, {}, DocAt(id), {}) ELSE Event("get", scope, id, NoBody, 404, {}, {}, DocAt(id), {})

listResponse(scope) == Event("list", scope, 0, NoBody, 200, ListFilter(scope), {}, {}, {})

\* A public handler that encodes the whole document.
publicResponseDoc(id) == IF id \in DOMAIN docs THEN Event("public", "", id, NoBody, 200, {docs[id]}, {docs[id].data}, DocAt(id), {}) ELSE Event("public", "", id, NoBody, 404, {}, {}, {}, {})

publicResponse(id) == IF id \in DOMAIN docs THEN Event("public", "", id, NoBody, 200, {}, {docs[id].data}, DocAt(id), {}) ELSE Event("public", "", id, NoBody, 404, {}, {}, {}, {})

\* The account with this email, if any (FindOne {"email": email}).
FindEmail(email) == {u \in users : u.email = email}

\* A register that looks the email up as it was sent, not lower-cased.
registerHandlerNoFold(p, email, password) ==
    /\ Mongo /\ IdleAt(p)
    /\ IF email = "" \/ password = ""
       THEN Respond(AuthEvent("register", email, password, 400, {}, {"Email and password are required"}))
       ELSE IF ~Len6(password)
       THEN Respond(AuthEvent("register", email, password, 400, {}, {"Password must be at least 6 characters"}))
       ELSE IF FindEmail(email) # {}
       THEN Respond(AuthEvent("register", email, password, 409, {}, {"Email already registered"}))
       ELSE /\ Cardinality(users) + Cardinality({q \in Procs : pc[q] = "reg"}) < MaxUsers
            /\ pc' = [pc EXCEPT ![p] = "reg"]
            /\ loc' = [loc EXCEPT ![p] = [NoLoc EXCEPT !.op = "register", !.email = email, !.password = password]]
            /\ UNCHANGED <<backend, workers, quota, bodies, cfgKey, users, docs, files, mu, nextId, removed, ev>>

\* POST /auth/register: the body is validated and the email looked up
registerHandler(p, email, password) ==
    /\ Mongo /\ IdleAt(p)
    /\ IF email = "" \/ password = ""
       THEN Respond(AuthEvent("register", email, password, 400, {}, {"Email and password are required"}))
       ELSE IF ~Len6(password)
       THEN Respond(AuthEvent("register", email, password, 400, {}, {"Password must be at least 6 characters"}))
       ELSE IF FindEmail(ToLower(email)) # {}
       THEN Respond(AuthEvent("register", email, password, 409, {}, {"Email already registered"}))
       ELSE /\ Cardinality(users) + Cardinality({q \in Procs : pc[q] = "reg"}) < MaxUsers
            /\ pc' = [pc EXCEPT ![p] = "reg"]
            /\ loc' = [loc EXCEPT ![p] = [NoLoc EXCEPT !.op = "register", !.email = email, !.password = password]]
            /\ UNCHANGED <<backend, workers, quota, bodies, cfgKey, users, docs, files, mu, nextId, removed, ev>>

\* An InsertOne into a users collection that has no unique index.
registerInsertNoIndex(p) ==
    /\ Mongo /\ pc[p] = "reg" /\ ev = NoEv
    /\ LET l == loc[p]
           n == Cardinality(users) + 1
           user == [id |-> UserID(n), email |-> ToLower(l.email), password |-> GenerateFromPassword(l.password), api_key |-> APIKey(n)]
       IN /\ users' = users \cup {user}
          /\ ev' = AuthEvent("register", l.email, l.password, 201, {UserData(user)}, {})
    /\ pc' = [pc EXCEPT ![p] = "idle"]
    /\ loc' = [loc EXCEPT ![p] = NoLoc]
    /\ UNCHANGED <<backend, workers, quota, bodies, cfgKey, docs, files, mu, nextId, removed>>

\* POST /auth/register: the password is hashed, the account built and
\* InsertOne called (the unique index on email rejects a duplicate)
registerInsert(p) ==
    /\ Mongo /\ pc[p] = "reg" /\ ev = NoEv
    /\ LET l == loc[p]
           n == Cardinality(users) + 1
           user == [id |-> UserID(n), email |-> ToLower(l.email), password |-> GenerateFromPassword(l.password), api_key |-> APIKey(n)]
       IN IF FindEmail(user.email) # {}
          THEN /\ users' = users
               /\ ev' = AuthEvent("register", l.email, l.password, 500, {}, {"Failed to create account"})
          ELSE /\ users' = users \cup {user}
               /\ ev' = AuthEvent("register", l.email, l.password, 201, {UserData(user)}, {})
    /\ pc' = [pc EXCEPT ![p] = "idle"]
    /\ loc' = [loc EXCEPT ![p] = NoLoc]
    /\ UNCHANGED <<backend, workers, quota, bodies, cfgKey, docs, files, mu, nextId, removed>>

\* A login that tells an unknown email from a wrong password.
loginResponseLeaky(email, password) ==
    IF email = "" \/ password = ""
    THEN AuthEvent("login", email, password, 400, {}, {"Email and password are required"})
    ELSE IF FindEmail(ToLower(email)) = {}
    THEN AuthEvent("login", email, password, 404, {}, {"User not found"})
    ELSE LET user == CHOOSE u \in FindEmail(ToLower(email)) : TRUE
         IN IF ~CompareHashAndPassword(user.password, password)
            THEN AuthEvent("login", email, password, 401, {}, {"Invalid email or password"})
            ELSE AuthEvent("login", email, password, 200, {UserData(user)}, {})

\* A login that looks the email up as it was sent, not lower-cased.
loginResponseNoFold(email, password) ==
    IF email = "" \/ password = ""
    THEN AuthEvent("login", email, password, 400, {}, {"Email and password are required"})
    ELSE IF FindEmail(email) = {}
    THEN AuthEvent("login", email, password, 401, {}, {"Invalid email or password"})
    ELSE LET user == CHOOSE u \in FindEmail(email) : TRUE
         IN IF ~CompareHashAndPassword(user.password, password)
            THEN AuthEvent("login", email, password, 401, {}, {"Invalid email or password"})
            ELSE AuthEvent("login", email, password, 200, {UserData(user)}, {})

\* The response of loginHandler.
loginResponse(email, password) ==
    IF email = "" \/ password = ""
    THEN AuthEvent("login", email, password, 400, {}, {"Email and password are required"})
    ELSE IF FindEmail(ToLower(email)) = {}
    THEN AuthEvent("login", email, password, 401, {}, {"Invalid email or password"})
    ELSE LET user == CHOOSE u \in FindEmail(ToLower(email)) : TRUE
         IN IF ~CompareHashAndPassword(user.password, password)
            THEN AuthEvent("login", email, password, 401, {}, {"Invalid email or password"})
            ELSE AuthEvent("login", email, password, 200, {UserData(user)}, {})

\* POST /auth/login
loginHandler(email, password) ==
    /\ Mongo /\ Idle
    /\ Respond(loginResponse(email, password))

\* GET /api/me
meHandler(cred) ==
    /\ Mongo /\ Idle
    /\ authMiddleware(cred).ok
    /\ LET scope == authMiddleware(cred).scope IN
       Respond(Event("me", scope, 0, NoBody, 200, IF scope = Global THEN {[id |-> Global, type |-> "api_key"]} ELSE {UserData(u) : u \in {v \in users : v.api_key = cred}}, {}, {}, {}))

\* A middleware that answers 401 and, for want of a return, still calls the
\* handler: createDocument then inserts a document with an empty user_id.
UnauthorizedNoReturn(op, cred) ==
    /\ Mongo /\ Idle
    /\ ~authMiddleware(cred).ok
    /\ IF op = "create" /\ nextId <= quota
       THEN /\ docs' = (NewUUID :> [id |-> NewUUID, user_id |-> "", name |-> "n1", data |-> "{}", created_at |-> 0, updated_at |-> 0]) @@ docs
            /\ nextId' = nextId + 1
            /\ ev' = Event(op, "", 0, NoBody, 401, {}, {}, {}, {})
            /\ UNCHANGED <<backend, workers, quota, bodies, cfgKey, users, files, mu, removed, pc, loc>>
       ELSE Respond(Event(op, "", 0, NoBody, 401, {}, {}, {}, {}))

\* A request the middleware rejects: 401, the handler is not called.
Unauthorized(op, cred) ==
    /\ Mongo /\ Idle
    /\ ~authMiddleware(cred).ok
    /\ Respond(Event(op, "", 0, NoBody, 401, {}, {}, {}, {}))

\* GET /health
healthHandler ==
    /\ Mongo /\ Idle
    /\ Respond(Event("health", "", 0, NoBody, 200, {}, {}, {}, {}))

\* A get that records the access in the document's updated_at.
getDocumentTouch(cred, id) ==
    /\ Mongo /\ Idle
    /\ authMiddleware(cred).ok
    /\ ev' = getResponse(authMiddleware(cred).scope, id)
    /\ docs' = IF id \in DOMAIN docs THEN [docs EXCEPT ![id].updated_at = MaxTime] ELSE docs
    /\ UNCHANGED <<backend, workers, quota, bodies, cfgKey, users, files, mu, nextId, removed, pc, loc>>

\* GET /api/documents/{id}
getDocument(cred, id) ==
    /\ Mongo /\ Idle
    /\ authMiddleware(cred).ok
    /\ Respond(getResponse(authMiddleware(cred).scope, id))

\* GET /api/documents
listDocuments(cred) ==
    /\ Mongo /\ Idle
    /\ authMiddleware(cred).ok
    /\ Respond(listResponse(authMiddleware(cred).scope))

\* GET /public/{id}
publicHandler(id) ==
    /\ Mongo /\ Idle
    /\ Respond(publicResponse(id))

\* A create that does not require a name.
createDocumentAnyName(cred, body) ==
    /\ Mongo /\ Idle
    /\ authMiddleware(cred).ok
    /\ LET scope == authMiddleware(cred).scope IN
       IF body.bad
       THEN Respond(Event("create", scope, 0, body, 400, {}, {}, {}, {}))
       ELSE /\ nextId <= quota
            /\ \E c \in Times : \E u \in c..MaxTime :
                 LET id == NewUUID
                     doc == [id |-> id, user_id |-> scope, name |-> body.name, data |-> CreateData(body.data), created_at |-> c, updated_at |-> u]
                 IN /\ nextId' = nextId + 1
                    /\ docs' = (id :> doc) @@ docs
                    /\ ev' = Event("create", scope, id, body, 201, {doc}, {}, DocAt(id), {})
            /\ UNCHANGED <<backend, workers, quota, bodies, cfgKey, users, files, mu, removed, pc, loc>>

\* POST /api/documents
createDocument(cred, body) ==
    /\ Mongo /\ Idle
    /\ authMiddleware(cred).ok
    /\ LET scope == authMiddleware(cred).scope IN
       IF body.bad \/ body.name = ""
       THEN Respond(Event("create", scope, 0, body, 400, {}, {}, {}, {}))
       ELSE /\ nextId <= quota
            /\ \E c \in Times : \E u \in c..MaxTime :
                 LET id == NewUUID
                     doc == [id |-> id, user_id |-> scope, name |-> body.name, data |-> CreateData(body.data), created_at |-> c, updated_at |-> u]
                 IN /\ nextId' = nextId + 1
                    /\ IF id \in DOMAIN docs
                       THEN \* InsertOne: duplicate key error on _id
                            /\ docs' = docs
                            /\ ev' = Event("create", scope, id, body, 500, {}, {}, DocAt(id), {})
                       ELSE /\ docs' = (id :> doc) @@ docs
                            /\ ev' = Event("create", scope, id, body, 201, {doc}, {}, DocAt(id), {})
            /\ UNCHANGED <<backend, workers, quota, bodies, cfgKey, users, files, mu, removed, pc, loc>>

\* PUT /api/documents/{id}: FindOne of the existing document
updateDocumentFind(p, cred, id) ==
    /\ Mongo /\ IdleAt(p)
    /\ authMiddleware(cred).ok
    /\ LET scope == authMiddleware(cred).scope IN
       IF ~Filter(scope, id)
       THEN Respond(Event("update", scope, id, NoBody, 404, {}, {}, DocAt(id), {}))
       ELSE /\ loc' = [loc EXCEPT ![p] = [NoLoc EXCEPT !.op = "update", !.scope = scope, !.id = id, !.doc = {docs[id]}]]
            /\ pc' = [pc EXCEPT ![p] = "upd"]
            /\ UNCHANGED <<backend, workers, quota, bodies, cfgKey, users, docs, files, mu, nextId, removed, ev>>

\* PUT /api/documents/{id}: the body, UpdateOne and the response
updateDocumentWrite(p, body) ==
    /\ Mongo /\ pc[p] = "upd" /\ ev = NoEv
    /\ LET l == loc[p]
           old == CHOOSE d \in l.doc : TRUE
       IN IF body.bad
          THEN /\ ev' = Event("update", l.scope, l.id, body, 400, {}, {}, DocAt(l.id), l.doc)
               /\ UNCHANGED docs
          ELSE \E t1 \in Now(old.updated_at) : \E t2 \in Now(t1) :
                 /\ docs' = IF Filter(l.scope, l.id) THEN [docs EXCEPT ![l.id] = SetDoc(@, body, t1)] ELSE docs
                 /\ ev' = Event("update", l.scope, l.id, body, 200, {RespDoc(old, body, t2)}, {}, DocAt(l.id), l.doc)
    /\ pc' = [pc EXCEPT ![p] = "idle"]
    /\ loc' = [loc EXCEPT ![p] = NoLoc]
    /\ UNCHANGED <<backend, workers, quota, bodies, cfgKey, users, files, mu, nextId, removed>>

\* DELETE /api/documents/{id}
deleteDocument(cred, id) ==
    /\ Mongo /\ Idle
    /\ authMiddleware(cred).ok
    /\ LET scope == authMiddleware(cred).scope IN
       IF Filter(scope, id)
       THEN /\ docs' = [i \in DOMAIN docs \ {id} |-> docs[i]]
            /\ removed' = removed \cup {id}
            /\ ev' = Event("delete", scope, id, NoBody, 200, {}, {}, DocAt(id), {})
            /\ UNCHANGED <<backend, workers, quota, bodies, cfgKey, users, files, mu, nextId, pc, loc>>
       ELSE Respond(Event("delete", scope, id, NoBody, 404, {}, {}, DocAt(id), {}))

InitMongo ==
    /\ backend = "mongo"
    /\ \E w \in Workloads : workers = w.workers /\ quota = w.quota /\ bodies = w.bodies
    /\ cfgKey = "admin"
    /\ users = InitUsers
    /\ docs = <<>>
    /\ files = <<>>
    /\ mu = [writer |-> 0, readers |-> 0]
    /\ nextId = 1
    /\ removed = {}
    /\ pc = [p \in Procs |-> "idle"]
    /\ loc = [p \in Procs |-> NoLoc]
    /\ ev = NoEv

\* A server that starts with an empty users collection, with or without a
\* configured API key.
InitAccounts ==
    /\ backend = "mongo"
    /\ workers = Procs /\ quota = MaxDocs - 1 /\ bodies = {[bad |-> FALSE, name |-> "n1", data |-> "d1"]}
    /\ cfgKey \in {"", "admin"}
    /\ users = {}
    /\ docs = <<>>
    /\ files = <<>>
    /\ mu = [writer |-> 0, readers |-> 0]
    /\ nextId = 1
    /\ removed = {}
    /\ pc = [p \in Procs |-> "idle"]
    /\ loc = [p \in Procs |-> NoLoc]
    /\ ev = NoEv

NextMongo ==
    \/ \E op \in {"get", "list", "create", "update", "delete", "me"}, cred \in Creds : Unauthorized(op, cred)
    \/ \E p \in Procs, email \in EmailIn, password \in PasswordIn : registerHandler(p, email, password)
    \/ \E p \in Procs : registerInsert(p)
    \/ \E email \in EmailIn, password \in PasswordIn : loginHandler(email, password)
    \/ \E cred \in Creds : meHandler(cred)
    \/ healthHandler
    \/ \E cred \in Creds, id \in Ids : getDocument(cred, id)
    \/ \E cred \in Creds : listDocuments(cred)
    \/ \E id \in Ids : publicHandler(id)
    \/ \E cred \in Creds, body \in bodies : createDocument(cred, body)
    \/ \E p \in Procs, cred \in Creds, id \in Ids : updateDocumentFind(p, cred, id)
    \/ \E p \in Procs, body \in bodies : updateDocumentWrite(p, body)
    \/ \E cred \in Creds, id \in Ids : deleteDocument(cred, id)
    \/ sendJSON

SpecMongo == (InitMongo \/ InitAccounts) /\ [][NextMongo]_vars

SpecAccounts == InitAccounts /\ [][NextMongo]_vars

\* ------------------------------------------------- the database unreachable
\* The response of a request one of whose driver calls failed.
Failed(e) == [e EXCEPT !.fault = TRUE]

\* authMiddleware: FindOne on the users collection returns an error
authMiddlewareErr(op, cred) ==
    /\ Mongo /\ Idle
    /\ cred # "" /\ ~(cfgKey # "" /\ cred = cfgKey)
    /\ Respond(Failed(Event(op, "", 0, NoBody, 401, {}, {}, {}, {})))

\* registerHandler: FindOne returns an error, which the handler takes for
\* "no such email", and goes on to insert
registerHandlerErr(p, email, password) ==
    /\ Mongo /\ IdleAt(p)
    /\ email # "" /\ Len6(password)
    /\ Cardinality(users) + Cardinality({q \in Procs : pc[q] = "reg"}) < MaxUsers
    /\ pc' = [pc EXCEPT ![p] = "reg"]
    /\ loc' = [loc EXCEPT ![p] = [NoLoc EXCEPT !.op = "register", !.email = email, !.password = password]]
    /\ UNCHANGED <<backend, workers, quota, bodies, cfgKey, users, docs, files, mu, nextId, removed, ev>>

\* registerHandler: InsertOne returns an error
registerInsertErr(p) ==
    /\ Mongo /\ pc[p] = "reg" /\ ev = NoEv
    /\ ev' = Failed(AuthEvent("register", loc[p].email, loc[p].password, 500, {}, {"Failed to create account"}))
    /\ pc' = [pc EXCEPT ![p] = "idle"]
    /\ loc' = [loc EXCEPT ![p] = NoLoc]
    /\ UNCHANGED <<backend, workers, quota, bodies, cfgKey, users, docs, files, mu, nextId, removed>>

\* loginHandler: FindOne returns an error
loginHandlerErr(email, password) ==
    /\ Mongo /\ Idle
    /\ email # "" /\ password # ""
    /\ Respond(Failed(AuthEvent("login", email, password, 401, {}, {"Invalid email or password"})))

\* getDocument: FindOne returns an error
getDocumentErr(cred, id) ==
    /\ Mongo /\ Idle
    /\ authMiddleware(cred).ok
    /\ Respond(Failed(Event("get", authMiddleware(cred).scope, id, NoBody, 404, {}, {}, DocAt(id), {})))

\* listDocuments: Find returns an error
listDocumentsErr(cred) ==
    /\ Mongo /\ Idle
    /\ authMiddleware(cred).ok
    /\ Respond(Failed(Event("list", authMiddleware(cred).scope, 0, NoBody, 500, {}, {}, {}, {})))

\* publicHandler: FindOne returns an error
publicHandlerErr(id) ==
    /\ Mongo /\ Idle
    /\ Respond(Failed(Event("public", "", id, NoBody, 404, {}, {}, DocAt(id), {})))

\* createDocument: InsertOne returns an error
createDocumentErr(cred, body) ==
    /\ Mongo /\ Idle
    /\ authMiddleware(cred).ok
    /\ ~body.bad /\ body.name # ""
    /\ Respond(Failed(Event("create", authMiddleware(cred).scope, 0, body, 500, {}, {}, {}, {})))

\* updateDocument: FindOne returns an error
updateDocumentFindErr(cred, id) ==
    /\ Mongo /\ Idle
    /\ authMiddleware(cred).ok
    /\ Respond(Failed(Event("update", authMiddleware(cred).scope, id, NoBody, 404, {}, {}, DocAt(id), {})))

\* updateDocument: UpdateOne returns an error
updateDocumentWriteErr(p, body) ==
    /\ Mongo /\ pc[p] = "upd" /\ ev = NoEv
    /\ ~body.bad
    /\ ev' = Failed(Event("update", loc[p].scope, loc[p].id, body, 500, {}, {}, DocAt(loc[p].id), loc[p].doc))
    /\ pc' = [pc EXCEPT ![p] = "idle"]
    /\ loc' = [loc EXCEPT ![p] = NoLoc]
    /\ UNCHANGED <<backend, workers, quota, bodies, cfgKey, users, docs, files, mu, nextId, removed>>

\* deleteDocument: DeleteOne returns an error
deleteDocumentErr(cred, id) ==
    /\ Mongo /\ Idle
    /\ authMiddleware(cred).ok
    /\ Respond(Failed(Event("delete", authMiddleware(cred).scope, id, NoBody, 404, {}, {}, DocAt(id), {})))

\* The server with a database that is unreachable from time to time.
NextOutage ==
    \/ NextMongo
    \/ \E op \in {"get", "list", "create", "update", "delete", "me"}, cred \in Creds : authMiddlewareErr(op, cred)
    \/ \E p \in Procs, email \in EmailIn, password \in PasswordIn : registerHandlerErr(p, email, password)
    \/ \E p \in Procs : registerInsertErr(p)
    \/ \E email \in EmailIn, password \in PasswordIn : loginHandlerErr(email, password)
    \/ \E cred \in Creds, id \in Ids : getDocumentErr(cred, id)
    \/ \E cred \in Creds : listDocumentsErr(cred)
    \/ \E id \in Ids : publicHandlerErr(id)
    \/ \E cred \in Creds, body \in bodies : createDocumentErr(cred, body)
    \/ \E cred \in Creds, id \in Ids : updateDocumentFindErr(cred, id)
    \/ \E p \in Procs, body \in bodies : updateDocumentWriteErr(p, body)
    \/ \E cred \in Creds, id \in Ids : deleteDocumentErr(cred, id)

SpecOutage == InitAccounts /\ [][NextOutage]_vars

\* ========================================================= the file backend
File == backend = "file"

\* authMiddleware: apiKey != config.APIKey is rejected.
authMiddlewareFile(cred) == cred = cfgKey

\* A read that does not wait for the writer.
RLockIgnoresWriter == TRUE

\* s.mu.RLock() returns: no writer holds the lock or waits for it.
CanRLock == mu.writer = 0

\* s.mu.Lock() is entered: no other writer holds the lock or waits for it.
CanLock == mu.writer = 0

\* s.mu.Lock() returns: the readers have left.
LockHeld(p) == mu.writer = p /\ mu.readers = 0

\* os.ReadFile and json.Unmarshal of Get: the document, or nothing on an
\* error (no such file, or a file that does not hold a whole document).
ReadDoc(id) == IF id \in DOMAIN files /\ files[id] # <<>> THEN {files[id][1]} ELSE {}

Torn(id) == id \in DOMAIN files /\ files[id] = <<>>

\* os.ReadDir: the file names in order.
ReadDir == CHOOSE s \in [1..Cardinality(DOMAIN files) -> DOMAIN files] : \A i, j \in DOMAIN s : i < j => s[i] < s[j]

\* createDocument: an empty input.Data is replaced by "{}".
CreateDataFile(data) == IF data = "absent" THEN "{}" ELSE data

\* updateDocument: the fields of the request applied to the document read.
EditDoc(doc, body, t) == [doc EXCEPT !.updated_at = t, !.name = IF body.name # "" THEN body.name ELSE @, !.data = IF body.data # "absent" THEN body.data ELSE @]

\* The responses of the handlers that call store.Get once.
getResponseFile(id) == IF ReadDoc(id) # {} THEN EventT("get", "", id, NoBody, 200, ReadDoc(id), {}, ReadDoc(id), {}, FALSE) ELSE EventT("get", "", id, NoBody, 404, {}, {}, {}, {}, Torn(id))

publicResponseFile(id) == IF ReadDoc(id) # {} THEN EventT("public", "", id, NoBody, 200, {}, {d.data : d \in ReadDoc(id)}, ReadDoc(id), {}, FALSE) ELSE EventT("public", "", id, NoBody, 404, {}, {}, {}, {}, Torn(id))

\* A request the middleware rejects: 401, the handler is not called.
UnauthorizedFile(op, cred) ==
    /\ File /\ Idle
    /\ ~authMiddlewareFile(cred)
    /\ Respond(Event(op, "", 0, NoBody, 401, {}, {}, {}, {}))

\* GET /health
healthHandlerFile ==
    /\ File /\ Idle
    /\ Respond(Event("health", "", 0, NoBody, 200, {}, {}, {}, {}))

\* GET /api/documents/{id}
getDocumentFile(cred, id) ==
    /\ File /\ Idle
    /\ authMiddlewareFile(cred)
    /\ CanRLock
    /\ Respond(getResponseFile(id))

\* GET /public/{id}
publicHandlerFile(id) ==
    /\ File /\ Idle
    /\ CanRLock
    /\ Respond(publicResponseFile(id))

\* GET /api/documents: List takes the read lock and reads the directory
ListRLock(p, cred) ==
    /\ File /\ IdleAt(p)
    /\ authMiddlewareFile(cred)
    /\ CanRLock
    /\ mu' = [mu EXCEPT !.readers = @ + 1]
    /\ pc' = [pc EXCEPT ![p] = "ls"]
    /\ loc' = [loc EXCEPT ![p] = [NoLoc EXCEPT !.op = "list", !.dir = ReadDir]]
    /\ UNCHANGED <<backend, workers, quota, bodies, cfgKey, users, docs, files, nextId, removed, ev>>

\* List: s.Get of the next file (Get takes the read lock again)
ListGet(p) ==
    /\ File /\ pc[p] = "ls" /\ ev = NoEv
    /\ loc[p].dir # <<>>
    /\ CanRLock
    /\ loc' = [loc EXCEPT ![p].dir = Tail(@), ![p].acc = @ \cup ReadDoc(Head(loc[p].dir)), ![p].torn = @ \/ Torn(Head(loc[p].dir))]
    /\ UNCHANGED <<backend, workers, quota, bodies, cfgKey, users, docs, files, mu, nextId, removed, pc, ev>>

\* List returns, and listDocuments responds
ListRUnlock(p) ==
    /\ File /\ pc[p] = "ls" /\ ev = NoEv
    /\ loc[p].dir = <<>>
    /\ mu' = [mu EXCEPT !.readers = @ - 1]
    /\ ev' = EventT("list", "", 0, NoBody, 200, loc[p].acc, {}, {}, {}, loc[p].torn)
    /\ pc' = [pc EXCEPT ![p] = "idle"]
    /\ loc' = [loc EXCEPT ![p] = NoLoc]
    /\ UNCHANGED <<backend, workers, quota, bodies, cfgKey, users, docs, files, nextId, removed>>

\* POST /api/documents with a body that is rejected
createDocumentReject(cred, body) ==
    /\ File /\ Idle
    /\ authMiddlewareFile(cred)
    /\ body.bad \/ body.name = ""
    /\ Respond(Event("create", "", 0, body, 400, {}, {}, {}, {}))

\* POST /api/documents: the body is accepted and the identifier is drawn
createDocumentFile(p, cred) ==
    /\ File /\ IdleAt(p)
    /\ authMiddlewareFile(cred)
    /\ nextId <= quota
    /\ nextId' = nextId + 1
    /\ pc' = [pc EXCEPT ![p] = "c_new"]
    /\ loc' = [loc EXCEPT ![p] = [NoLoc EXCEPT !.op = "create", !.id = NewUUID]]
    /\ UNCHANGED <<backend, workers, quota, bodies, cfgKey, users, docs, files, mu, removed, ev>>

\* PUT /api/documents/{id}: store.Get of the existing document
updateDocumentGet(p, cred, id) ==
    /\ File /\ IdleAt(p)
    /\ authMiddlewareFile(cred)
    /\ CanRLock
    /\ IF ReadDoc(id) = {}
       THEN Respond(EventT("update", "", id, NoBody, 404, {}, {}, {}, {}, Torn(id)))
       ELSE /\ pc' = [pc EXCEPT ![p] = "u_read"]
            /\ loc' = [loc EXCEPT ![p] = [NoLoc EXCEPT !.op = "update", !.id = id, !.doc = ReadDoc(id)]]
            /\ UNCHANGED <<backend, workers, quota, bodies, cfgKey, users, docs, files, mu, nextId, removed, ev>>

\* PUT /api/documents/{id}: a body that is not JSON
updateDocumentReject(p) ==
    /\ File /\ pc[p] = "u_read" /\ ev = NoEv
    /\ ev' = Event("update", "", loc[p].id, [bad |-> TRUE, name |-> "", data |-> "absent"], 400, {}, {}, ReadDoc(loc[p].id), loc[p].doc)
    /\ pc' = [pc EXCEPT ![p] = "idle"]
    /\ loc' = [loc EXCEPT ![p] = NoLoc]
    /\ UNCHANGED <<backend, workers, quota, bodies, cfgKey, users, docs, files, mu, nextId, removed>>

\* Save, called by createDocument or updateDocument, enters s.mu.Lock()
SaveLock(p) ==
    /\ File /\ pc[p] \in {"c_new", "u_read"} /\ ev = NoEv
    /\ CanLock
    /\ mu' = [mu EXCEPT !.writer = p]
    /\ pc' = [pc EXCEPT ![p] = "sv_lock"]
    /\ UNCHANGED <<backend, workers, quota, bodies, cfgKey, users, docs, files, nextId, removed, loc, ev>>

\* Save: s.mu.Lock() returns and os.WriteFile opens the file with O_TRUNC
SaveTruncate(p) ==
    /\ File /\ pc[p] = "sv_lock" /\ ev = NoEv
    /\ LockHeld(p)
    /\ files' = (loc[p].id :> <<>>) @@ files
    /\ pc' = [pc EXCEPT ![p] = "sv_write"]
    /\ loc' = [loc EXCEPT ![p].pre = ReadDoc(loc[p].id)]
    /\ UNCHANGED <<backend, workers, quota, bodies, cfgKey, users, docs, mu, nextId, removed, ev>>

\* Save: os.WriteFile writes the document, the lock is released and the
\* handler responds
SaveWrite(p, body) ==
    /\ File /\ pc[p] = "sv_write" /\ ev = NoEv
    /\ ~body.bad
    /\ LET l == loc[p] IN
       IF l.op = "create"
       THEN /\ body.name # ""
            /\ \E c \in Times : \E u \in Now(c) :
                 LET doc == [id |-> l.id, name |-> body.name, data |-> CreateDataFile(body.data), created_at |-> c, updated_at |-> u]
                 IN /\ files' = [files EXCEPT ![l.id] = <<doc>>]
                    /\ ev' = Event("create", "", l.id, body, 201, {doc}, {}, l.pre, {})
       ELSE \E d \in l.doc : \E t \in Now(d.updated_at) :
                 LET doc == EditDoc(d, body, t)
                 IN /\ files' = [files EXCEPT ![l.id] = <<doc>>]
                    /\ ev' = Event("update", "", l.id, body, 200, {doc}, {}, l.pre, l.doc)
    /\ mu' = [mu EXCEPT !.writer = 0]
    /\ pc' = [pc EXCEPT ![p] = "idle"]
    /\ loc' = [loc EXCEPT ![p] = NoLoc]
    /\ UNCHANGED <<backend, workers, quota, bodies, cfgKey, users, docs, nextId, removed>>

\* DELETE /api/documents/{id}: Delete enters s.mu.Lock()
deleteDocumentLock(p, cred, id) ==
    /\ File /\ IdleAt(p)
    /\ authMiddlewareFile(cred)
    /\ CanLock
    /\ mu' = [mu EXCEPT !.writer = p]
    /\ pc' = [pc EXCEPT ![p] = "d_lock"]
    /\ loc' = [loc EXCEPT ![p] = [NoLoc EXCEPT !.op = "delete", !.id = id]]
    /\ UNCHANGED <<backend, workers, quota, bodies, cfgKey, users, docs, files, nextId, removed, ev>>

\* Delete: s.mu.Lock() returns, os.Remove, the lock is released and the
\* handler responds
DeleteRemove(p) ==
    /\ File /\ pc[p] = "d_lock" /\ ev = NoEv
    /\ LockHeld(p)
    /\ LET id == loc[p].id IN
       IF id \in DOMAIN files
       THEN /\ files' = [i \in DOMAIN files \ {id} |-> files[i]]
            /\ removed' = removed \cup {id}
            /\ ev' = Event("delete", "", id, NoBody, 200, {}, {}, ReadDoc(id), {})
       ELSE /\ UNCHANGED <<files, removed>>
            /\ ev' = Event("delete", "", id, NoBody, 404, {}, {}, {}, {})
    /\ mu' = [mu EXCEPT !.writer = 0]
    /\ pc' = [pc EXCEPT ![p] = "idle"]
    /\ loc' = [loc EXCEPT ![p] = NoLoc]
    /\ UNCHANGED <<backend, workers, quota, bodies, cfgKey, users, docs, nextId>>

InitFile ==
    /\ backend = "file"
    /\ \E w \in Workloads : workers = w.workers /\ quota = w.quota /\ bodies = w.bodies
    /\ cfgKey = "admin"
    /\ users = {}
    /\ docs = <<>>
    /\ files = <<>>
    /\ mu = [writer |-> 0, readers |-> 0]
    /\ nextId = 1
    /\ removed = {}
    /\ pc = [p \in Procs |-> "idle"]
    /\ loc = [p \in Procs |-> NoLoc]
    /\ ev = NoEv

NextFile ==
    \/ \E op \in {"get", "list", "create", "update", "delete"}, cred \in Creds : UnauthorizedFile(op, cred)
    \/ healthHandlerFile
    \/ \E cred \in Creds, id \in Ids : getDocumentFile(cred, id)
    \/ \E id \in Ids : publicHandlerFile(id)
    \/ \E p \in Procs, cred \in Creds : ListRLock(p, cred)
    \/ \E p \in Procs : ListGet(p)
    \/ \E p \in Procs : ListRUnlock(p)
    \/ \E cred \in Creds, body \in bodies : createDocumentReject(cred, body)
    \/ \E p \in Procs, cred \in Creds : createDocumentFile(p, cred)
    \/ \E p \in Procs, cred \in Creds, id \in Ids : updateDocumentGet(p, cred, id)
    \/ \E p \in Procs : updateDocumentReject(p)
    \/ \E p \in Procs : SaveLock(p)
    \/ \E p \in Procs : SaveTruncate(p)
    \/ \E p \in Procs, body \in bodies : SaveWrite(p, body)
    \/ \E p \in Procs, cred \in Creds, id \in Ids : deleteDocumentLock(p, cred, id)
    \/ \E p \in Procs : DeleteRemove(p)
    \/ sendJSON

SpecFile == InitFile /\ [][NextFile]_vars

\* The goroutines of the server are scheduled: a step that can be taken is
\* taken in the end.
FairSpecFile == SpecFile /\ WF_vars(NextFile)

\* NewJSONStore on a data directory that is not empty: an earlier run of the
\* server was killed inside os.WriteFile, after the file of document 1 had
\* been truncated and before its bytes were written.
InitCorrupt ==
    /\ backend = "file"
    /\ workers = Procs /\ quota = MaxDocs
    /\ bodies = {[bad |-> TRUE, name |-> "", data |-> "absent"], [bad |-> FALSE, name |-> "n1", data |-> "d1"]}
    /\ cfgKey = "admin"
    /\ users = {}
    /\ docs = <<>>
    /\ files = (1 :> <<>>)
    /\ mu = [writer |-> 0, readers |-> 0]
    /\ nextId = 2
    /\ removed = {}
    /\ pc = [p \in Procs |-> "idle"]
    /\ loc = [p \in Procs |-> NoLoc]
    /\ ev = NoEv

SpecCorrupt == InitCorrupt /\ [][NextFile]_vars

\* Worker p is inside the write section of Save or Delete: s.mu.Lock() has
\* returned and s.mu.Unlock() has not run.
InWrite(p) == pc[p] = "sv_write" \/ (pc[p] \in {"sv_lock", "d_lock"} /\ LockHeld(p))

\* The accounts of the users collection.
Accounts == {u.id : u \in users}

\* The live document with this identifier, if any, in the backend in use.
Stored(id) == IF Mongo THEN DocAt(id) ELSE ReadDoc(id)

\* Either backend.
Init == InitMongo \/ InitAccounts \/ InitFile

Next == NextMongo \/ NextFile

Spec == Init /\ [][Next]_vars

\* ================================================================ properties
\* C1: in the account-aware backend a get, update or delete that resolves to
\* an account other than the owner of the live document it names (the owner
\* being another account or the unscoped identity) answers 404, returns no
\* document and leaves the stored document as it was.
C1_CrossAccountNotFound ==
    /\ (ev.op \in {"get", "update", "delete"} /\ ev.scope \in Accounts /\ \E d \in ev.pre : d.user_id # ev.scope)
         => (ev.status = 404 /\ ev.out = {} /\ ev.content = {} /\ DocAt(ev.id) = ev.pre)
    /\ \A s \in Accounts, id \in DOMAIN docs : docs[id].user_id # s => (getResponse(s, id).status = 404 /\ getResponse(s, id).out = {})

\* An update under account uB of a live document of account uA was answered
\* 404, while a document of the unscoped owner is live too.
C1_Witness ==
    /\ ev.op = "update" /\ ev.scope = "uB" /\ ev.status = 404
    /\ \E d \in ev.pre : d.user_id = "uA"
    /\ \E i \in DOMAIN docs : docs[i].user_id = Global

\* C2: list under an account returns exactly the live documents that account
\* owns, and list under the unscoped identity returns every live document.
C2_ListExactlyOwned ==
    /\ (ev.op = "list" /\ ev.status = 200)
         => ev.out = {docs[i] : i \in {j \in DOMAIN docs : ev.scope = Global \/ docs[j].user_id = ev.scope}}
    /\ listResponse(Global).out = {docs[i] : i \in DOMAIN docs}
    /\ \A s \in Accounts : \A i \in DOMAIN docs : docs[i] \in listResponse(s).out <=> docs[i].user_id = s

\* A list under account uA returned a document while a document of account
\* uB was live (and absent from the answer).
C2_Witness ==
    /\ ev.op = "list" /\ ev.scope = "uA" /\ ev.out # {}
    /\ \E i \in DOMAIN docs : docs[i].user_id = "uB"

\* C3: a request of the unscoped identity on a live document succeeds whoever
\* owns it: get returns it, delete removes it, and an update with a valid body
\* is applied to it and leaves its owner unchanged.
C3_AdminReachesEveryDocument ==
    (ev.scope = Global /\ ev.pre # {} /\ ~ev.bad) =>
        /\ ev.op = "get" => (ev.status = 200 /\ ev.out = ev.pre)
        /\ ev.op = "delete" => (ev.status = 200 /\ ev.id \notin DOMAIN docs)
        /\ ev.op = "update" => /\ ev.status = 200
                               /\ ev.id \in DOMAIN docs
                               /\ \A d \in ev.pre : docs[ev.id].user_id = d.user_id
                               /\ ev.name # "" => docs[ev.id].name = ev.name
                               /\ ev.data \notin {"absent", "null"} => docs[ev.id].data = ev.data

\* The unscoped identity updated a live document of account uA, which is
\* still owned by uA.
C3_Witness ==
    /\ ev.op = "update" /\ ev.scope = Global /\ ev.status = 200 /\ ev.name = "n2"
    /\ \E d \in ev.pre : d.user_id = "uA" /\ d.name = "n1"
    /\ ev.id \in DOMAIN docs /\ docs[ev.id].user_id = "uA" /\ docs[ev.id].name = "n2"

\* C4: a successful create returns an identifier under which no document was
\* live when it was stored, and stores its own document there; the
\* identifiers of creates in progress differ from every stored identifier and
\* from each other, however the creates interleave.
C4_CreateIdentifierFresh ==
    /\ (ev.op = "create" /\ ev.status = 201)
         => (ev.pre = {} /\ Stored(ev.id) = ev.out /\ \A d \in ev.out : d.id = ev.id)
    /\ \A p \in workers : (loc[p].op = "create" /\ pc[p] \in {"c_new", "sv_lock"})
         => /\ loc[p].id \notin DOMAIN files
            /\ \A q \in workers \ {p} : loc[q].op = "create" => loc[q].id # loc[p].id
    /\ \A i \in DOMAIN docs : docs[i].id = i
    /\ \A i \in DOMAIN files : \A d \in ReadDoc(i) : d.id = i

\* A create of the file store succeeded while a second create, which had
\* drawn its identifier before the first one was saved, is in progress.
C4_Witness ==
    /\ File /\ ev.op = "create" /\ ev.status = 201
    /\ \E q \in workers : pc[q] = "c_new" /\ loc[q].id # ev.id

\* C5: after a successful update that supplies only the name the stored
\* content is the content stored before the write, and after one that
\* supplies only the content the stored name is the name stored before.
C5_UpdateFrame ==
    (ev.op = "update" /\ ev.status = 200 /\ ~ev.bad /\ ev.pre # {}) =>
        \A d \in ev.pre : \A s \in Stored(ev.id) :
            /\ (ev.name # "" /\ ev.data = "absent") => s.data = d.data
            /\ (ev.name = "" /\ ev.data # "absent") => s.name = d.name

\* C6: a get or a public get on an identifier whose delete has succeeded
\* answers 404.
C6_GetAfterDeleteNotFound ==
    (ev.op \in {"get", "public"} /\ ev.id \in removed) => (ev.status = 404 /\ ev.out = {} /\ ev.content = {})

\* C7: an identifier whose delete has succeeded is never live again.
C7_RemovalUnrecoverable ==
    \A id \in removed : id \notin DOMAIN docs /\ ReadDoc(id) = {}

\* C8: the document stored by a successful update is the whole effect of
\* that one call: the fields the call supplied, and every other field taken
\* from one document value (the one the call read, or the one stored when it
\* wrote), also when another update wrote in between.
C8_UpdateWholeEffect ==
    (ev.op = "update" /\ ev.status = 200 /\ ev.pre # {}) =>
        \E s \in Stored(ev.id) : \E base \in ev.pre \cup ev.read :
            /\ s.id = base.id /\ s.created_at = base.created_at
            /\ Mongo => s.user_id = base.user_id
            /\ s.name = IF ev.name # "" THEN ev.name ELSE base.name
            /\ s.data = IF ev.data = "absent" \/ (Mongo /\ ev.data = "null") THEN base.data ELSE ev.data

\* An update succeeded after another update had renamed the document
\* between its read and its write.
C8_Witness ==
    /\ ev.op = "update" /\ ev.status = 200 /\ ev.pre # {}
    /\ \E d \in ev.pre : \E r \in ev.read : d.name # r.name

\* C9: no get, public get, list or update finds the file of a document
\* truncated: a truncated file exists only while its writer holds the lock
\* with no reader inside, and a get returns a whole stored document.
C9_NoTornRead ==
    /\ ~ev.torn
    /\ \A p \in workers : ~loc[p].torn
    /\ \A id \in DOMAIN files : Torn(id) => (mu.readers = 0 /\ \E p \in workers : mu.writer = p /\ pc[p] = "sv_write" /\ loc[p].id = id)
    /\ (ev.op = "get" /\ ev.status = 200) => (ev.out = ev.pre /\ ev.out = ReadDoc(ev.id))

\* A list returned a document while an update of that document waits to
\* write it.
C9_Witness ==
    /\ ev.op = "list" /\ ev.status = 200
    /\ \E p \in workers : pc[p] = "sv_lock" /\ loc[p].op = "update" /\ \E d \in ev.out : d.id = loc[p].id

\* C10: from an update's read of the document to its write, the stored
\* document stays the one the update read.
C10_UpdateExcludesWriters ==
    \A p \in workers : (loc[p].op = "update" /\ pc[p] \in {"u_read", "sv_lock"}) => ReadDoc(loc[p].id) = loc[p].doc

\* C11: two writers (Save or Delete) on two distinct identifiers are at some
\* time both inside their write section.
C11_TwoWritersInside ==
    <>(\E p, q \in workers : p # q /\ loc[p].id # loc[q].id /\ InWrite(p) /\ InWrite(q))

\* The file store admits one writer at a time, whatever the identifiers: a
\* second writer has not passed s.mu.Lock() while the first is inside.
C11_WritersExcluded ==
    \A p, q \in workers : (InWrite(p) /\ InWrite(q)) => p = q

\* A writer on one identifier is inside its write section while a writer on
\* another identifier is held at s.mu.Lock().
C11_Waiting ==
    \E p, q \in workers : InWrite(p) /\ pc[q] \in {"c_new", "u_read"} /\ loc[q].id # loc[p].id

\* C12: a public get, which carries no credential, answers 200 with exactly
\* the current content of the document when the identifier is live, whoever
\* owns it, and 404 when it is not; it never answers 401 and never returns a
\* document with its name, owner or time stamps.
C12_PublicGetContentOnly ==
    /\ ev.op = "public" =>
          /\ ev.out = {} /\ ev.scope = ""
          /\ IF Stored(ev.id) # {}
             THEN ev.status = 200 /\ ev.content = {d.data : d \in Stored(ev.id)}
             ELSE ev.status = 404 /\ ev.content = {}
    /\ Mongo => \A id \in Ids :
          /\ publicResponse(id).out = {}
          /\ IF id \in DOMAIN docs
             THEN publicResponse(id).status = 200 /\ publicResponse(id).content = {docs[id].data}
             ELSE publicResponse(id).status = 404 /\ publicResponse(id).content = {}

\* A public get returned the content of a live document that an account
\* owns.
C12_Witness ==
    /\ ev.op = "public" /\ ev.status = 200 /\ ev.content = {"d1"}
    /\ Mongo /\ ev.id \in DOMAIN docs /\ docs[ev.id].user_id = "uA"

\* C13: the identity resolver decides every credential: the empty credential
\* is rejected, also when no API key is configured; the configured non-empty
\* key resolves to the unscoped identity; the API key of a stored account
\* resolves to that account's identifier and to no other; every other
\* credential is rejected.
C13_ResolverTotal ==
    Mongo => /\ \A cred \in Creds :
                 LET r == authMiddleware(cred)
                     owners == {u \in users : u.api_key = cred}
                 IN /\ r.ok \in BOOLEAN
                    /\ cred = "" => ~r.ok
                    /\ (cred # "" /\ cfgKey # "" /\ cred = cfgKey) => (r.ok /\ r.scope = Global)
                    /\ (cred # "" /\ cred # cfgKey /\ owners # {}) => (r.ok /\ \A u \in owners : r.scope = u.id)
                    /\ (cred # "" /\ (cfgKey = "" \/ cred # cfgKey) /\ owners = {}) => ~r.ok
                    /\ (r.ok /\ r.scope # Global) => \E u \in owners : u.id = r.scope
             /\ (ev.op = "me" /\ ev.status = 200) =>
                                /\ ev.scope = Global => cfgKey # ""
                                /\ ev.scope # Global => \E u \in users : u.id = ev.scope /\ ev.out = {UserData(u)}

\* With no API key configured, a request carrying the API key of the second
\* registered account was resolved to that account.
C13_Witness ==
    /\ cfgKey = "" /\ ev.op = "me" /\ ev.status = 200 /\ ev.scope = UserID(2)
    /\ ~authMiddleware("").ok /\ ~authMiddleware("admin").ok

\* The operations of /api/documents.
DocumentOps == {"get", "list", "create", "update", "delete"}

\* C14: a step that answers a document request with 401 starts no handler,
\* takes no lock and leaves the documents as they were; and a document
\* request that is answered otherwise was resolved to a scope.
C14_RejectedRequestTouchesNothing ==
    [][/\ (ev'.op \in DocumentOps /\ ev'.status = 401 /\ ev' # ev)
            => (docs' = docs /\ files' = files /\ removed' = removed /\ nextId' = nextId /\ mu' = mu /\ pc' = pc /\ loc' = loc)
       /\ (Mongo /\ ev'.op \in DocumentOps /\ ev'.status # 401)
            => (ev'.scope = Global \/ \E u \in users : u.id = ev'.scope)
      ]_vars

\* A delete with a credential that does not resolve was answered 401 while
\* documents are stored.
C14_Witness ==
    /\ ev.op = "delete" /\ ev.status = 401
    /\ DOMAIN docs # {}

\* The accounts registered under the case-folded form of this email.
Registered(email) == {u \in users : u.email = ToLower(email)}

UniqueAccounts ==
    \A u, v \in users : u # v => (ToLower(u.email) # ToLower(v.email) /\ u.api_key # v.api_key /\ u.id # v.id)

\* C16: no two accounts ever share their case-folded email or their API key,
\* however register calls interleave, and the users collection changes only
\* by the one whole account of a register that is answered 201.
C16_AccountsUnique ==
    /\ []UniqueAccounts
    /\ [][users' # users =>
             /\ ev'.op = "register" /\ ev'.status = 201
             /\ \E u \in users' \ users : users' = users \cup {u} /\ ev'.out = {UserData(u)} /\ u.email # "" /\ u.api_key # "" /\ u.id # ""
         ]_vars
    /\ [][(ev'.op = "register" /\ ev' # ev /\ ev'.status # 201) => users' = users]_vars

\* Of two concurrent registers of one email the second was answered 500 by
\* InsertOne, and one account has the email.
C16_Witness ==
    /\ ev.op = "register" /\ ev.status = 500
    /\ Cardinality(Registered(ev.name)) = 1

\* C17: every login with an email and a password that does not succeed is
\* answered alike, 401 with one error text and no account, whether or not
\* the email is registered.
C17_LoginFailureUniform ==
    /\ (ev.op = "login" /\ ev.name # "" /\ ev.data # "" /\ ev.status # 200)
         => (ev.status = 401 /\ ev.content = {"Invalid email or password"} /\ ev.out = {})
    /\ Mongo => \A e1, e2 \in EmailIn \ {""} : \A p1, p2 \in PasswordIn \ {""} :
          LET r1 == loginResponse(e1, p1)
              r2 == loginResponse(e2, p2)
          IN (r1.status # 200 /\ r2.status # 200)
               => (r1.status = 401 /\ r1.status = r2.status /\ r1.content = r2.content /\ r1.out = r2.out)

\* A login with a registered email and a wrong password was answered 401
\* while another email is not registered.
C17_Witness ==
    /\ ev.op = "login" /\ ev.status = 401 /\ Registered(ev.name) # {}
    /\ \E e \in EmailIn \ {""} : Registered(e) = {}

\* A login with the email of account u, in any letter case, and its
\* password is answered 200 with u's identifier, email and API key.
LoginReturnsStored ==
    /\ (ev.op = "login" /\ ev.status = 200)
         => \E u \in users : ev.out = {UserData(u)} /\ u.email = ToLower(ev.name) /\ CompareHashAndPassword(u.password, ev.data)
    /\ Mongo => \A u \in users : \A email \in EmailIn, password \in PasswordIn :
          (ToLower(email) = u.email /\ u.password = GenerateFromPassword(password))
            => (loginResponse(email, password).status = 200 /\ loginResponse(email, password).out = {UserData(u)})

\* C18: an account, once registered, stays in the users collection with the
\* identifier, email, password hash and API key that register stored and
\* returned, whatever happens afterwards, and every login with its email and
\* password returns exactly these.
C18_AccountImmutable ==
    /\ []LoginReturnsStored
    /\ [][\A u \in users : u \in users']_vars
    /\ [][(ev'.op = "register" /\ ev'.status = 201 /\ ev' # ev) => \E u \in users' \ users : ev'.out = {UserData(u)}]_vars

\* The first account logged in as A@X.com after a second account had
\* registered and a document had been created.
C18_Witness ==
    /\ ev.op = "login" /\ ev.status = 200 /\ ev.name = "A@X.com"
    /\ \A u \in Registered("a@x.com") : ev.out = {UserData(u)}
    /\ Cardinality(users) = 2 /\ DOMAIN docs # {}

\* The live documents of the backend in use.
Live == {docs[i] : i \in DOMAIN docs} \cup UNION {ReadDoc(i) : i \in DOMAIN files}

\* C19: no live document has a null or absent content.
C19_ContentNeverNull ==
    \A d \in Live : d.data \notin {"null", "absent"}

\* Every live document has a name.
NamesNonEmpty == \A d \in Live : d.name # ""

\* A create without a name is answered 400 and one with a well-formed body
\* and a name is answered 201.
CreateNeedsName ==
    (ev.op = "create" /\ ev.status # 401 /\ ~ev.bad) =>
        IF ev.name = "" THEN ev.status = 400 /\ ev.out = {} ELSE ev.status = 201 /\ \A d \in ev.out : d.name = ev.name

\* C20: a create with an empty or missing name is answered 400 and stores
\* nothing, so that every live document has a non-empty name after any
\* creates and updates; a create with a name succeeds also when a live
\* document has that name already.
C20_CreateRequiresName ==
    /\ []NamesNonEmpty
    /\ []CreateNeedsName
    /\ [][(ev'.op = "create" /\ ev' # ev /\ ev'.status = 400) => (docs' = docs /\ files' = files /\ nextId' = nextId)]_vars

\* A create succeeded under the name another live document has.
C20_Witness ==
    /\ ev.op = "create" /\ ev.status = 201 /\ Mongo
    /\ \E d \in Live : d.id # ev.id /\ d.name = ev.name

\* C21: after a successful update of a live document the stored
\* last-modified time stamp is not earlier than the one stored before the
\* write nor than the creation time stamp, and the identifier, the owner and
\* the creation time stamp are the ones stored before.
C21_UpdateRefreshesTimestamp ==
    (ev.op = "update" /\ ev.status = 200 /\ ev.pre # {}) =>
        \A d \in ev.pre : \A s \in Stored(ev.id) :
            /\ s.updated_at >= d.updated_at
            /\ s.updated_at >= s.created_at
            /\ s.id = d.id /\ s.created_at = d.created_at
            /\ Mongo => s.user_id = d.user_id

\* C22: a delete is answered 200 only for an identifier that is live and
\* visible to the caller and that no earlier delete has removed, and it
\* removes the document; any other delete is answered 404 and leaves the
\* documents as they were.
C22_DeleteOnce ==
    [][(ev'.op = "delete" /\ ev' # ev /\ ev'.status # 401) =>
          IF ev'.status = 200
          THEN /\ ev'.id \notin removed
               /\ IF Mongo THEN Filter(ev'.scope, ev'.id) ELSE ev'.id \in DOMAIN files
               /\ ev'.id \notin DOMAIN docs' /\ ev'.id \notin DOMAIN files'
          ELSE /\ ev'.status = 404
               /\ IF Mongo THEN ~Filter(ev'.scope, ev'.id) ELSE ev'.id \notin DOMAIN files
               /\ docs' = docs /\ files' = files /\ removed' = removed
      ]_vars

\* C23: a request for which the database was unreachable is answered 500,
\* never 404 and never 401.
C23_OutageReportsStoreUnavailable ==
    ev.fault => ev.status = 500

\* C24: a get or a list of the file store that read a record which is not a
\* whole document is answered 500.
C24_CorruptRecordSurfaced ==
    (ev.op \in {"get", "list"} /\ ev.torn) => ev.status = 500

\* C25: a step that answers a get, a list, a public get, a health check or
\* a login leaves the stored documents as they were; a step that answers a
\* document operation, a public get or a health check leaves the accounts as
\* they were; the stored documents change only in a step of a create, an
\* update or a delete that is answered 200 or 201, and the accounts only in
\* the step that answers a register with 201.
C25_ReadOnlyFrame ==
    [][/\ (ev' # ev /\ ev'.op \in {"get", "list", "public", "health", "login"}) => (docs' = docs /\ files' = files)
       /\ (ev' # ev /\ ev'.op \in DocumentOps \cup {"public", "health"}) => users' = users
       /\ (docs' # docs \/ files' # files) =>
             \/ ev' # ev /\ ev'.op \in {"create", "update", "delete"} /\ ev'.status \in {200, 201}
             \/ \E p \in Procs : pc[p] = "sv_lock" /\ pc'[p] = "sv_write" /\ loc[p].op \in {"create", "update"}
       /\ users' # users => (ev' # ev /\ ev'.op = "register" /\ ev'.status = 201)
      ]_vars

\* A login is answered 200 while an account and a document are stored.
C25_Witness ==
    ev.op = "login" /\ ev.status = 200 /\ users # {} /\ Live # {}

\* C26: under fair scheduling every list of the file store that has taken
\* the read lock returns.
C26_ListCompletes ==
    \A p \in Procs : (pc[p] = "ls") ~> (pc[p] = "idle")

\* A list holds the read lock and has a record left to read, a writer waits
\* in s.mu.Lock() for the readers to leave, and the list waits in the RLock
\* of Get for the writer.
C26_ListBlocked ==
    \E p, q \in Procs :
        /\ pc[p] = "ls" /\ loc[p].dir # <<>>
        /\ pc[q] \in {"sv_lock", "d_lock"} /\ mu.writer = q /\ mu.readers > 0
        /\ ev = NoEv /\ ~ENABLED NextFile

\* C27: a register that reaches InsertOne after a concurrent register has
\* created the account of the same case-folded email is answered 409 and
\* creates nothing.
C27_RegisterRaceConflict ==
    [][\A p \in Procs : (pc[p] = "reg" /\ pc'[p] # "reg" /\ Registered(loc[p].email) # {})
          => (ev'.op = "register" /\ ev'.status = 409 /\ users' = users)
      ]_vars

\* C28: when an update is answered 200, the document was stored and within
\* the caller's scope at the moment of the write, and it is stored after it.
C28_UpdateSuccessMeansLive ==
    (ev.op = "update" /\ ev.status = 200) =>
        /\ ev.pre # {}
        /\ \A d \in ev.pre : (Mongo /\ ev.scope # Global) => d.user_id = ev.scope
        /\ Stored(ev.id) # {}

\* C29: after a successful update that wrote after another update of the
\* same document had written in between its read and its write, the stored
\* document has the name and the content of that other update wherever this
\* call supplied none: no acknowledged update is lost.
C29_NoLostUpdate ==
    (ev.op = "update" /\ ev.status = 200 /\ ev.pre # {} /\ ev.read # ev.pre) =>
        \A d \in ev.pre : \A s \in Stored(ev.id) :
            /\ ev.name = "" => s.name = d.name
            /\ (ev.data = "absent" \/ (Mongo /\ ev.data = "null")) => s.data = d.data

\* C30: the document in the response of a successful update of a stored
\* document is the document stored right after its write: same name, same
\* content, same last-modified time stamp.
C30_ResponseIsStored ==
    (ev.op = "update" /\ ev.status = 200 /\ ev.pre # {}) => ev.out = Stored(ev.id)

====
